---- MODULE Spec2Model ----
(***************************************************************************)
(* Engagement Consistency Core of the community application: derived       *)
(* counters (likes_count, comments_count, replies_count), reputation       *)
(* points, registration against the permanent e-mail deny-list, and the    *)
(* member approval state machine.  Every step of a handler is one request  *)
(* to the shared store (one `await supabase...`); client sessions          *)
(* interleave between requests.                                            *)
(***************************************************************************)
EXTENDS Integers, FiniteSets, Sequences, TLC

\* ---------------------------------------------------------------- bounds
MaxOps == 2            \* handler invocations per client session
MaxThreadOps == 3      \* comment/reply/delete invocations per run, all sessions
MaxInitComments == 2   \* comments already stored when the run starts
MaxNewComments == 2    \* comments inserted during a run
MaxRegs == 2           \* registerUser calls per run
MaxListOps == 2        \* deny-list edits per run
MaxDecisions == 2      \* approve/reject clicks per admin session
MaxModOps == 3         \* moderation handler invocations per run, all sessions
MaxLogins == 1         \* loginUser calls per user
MaxPosts == 6          \* posts created per run, all sessions
MaxCounterOps == 3     \* like/reply/delete invocations per run, all sessions
MaxMarks == 2          \* handleMarkComplete calls per client session
MaxPostOps == 2        \* handler invocations per run while a post is being deleted

\* ------------------------------------------------------------- universes
Sessions == {"s1", "s2", "s3"}
Members == {"u1", "u2", "u3"}
Posts == {"p1"}
NoRow == [none |-> TRUE]
Statuses == {"pending", "approved", "rejected"}

VARIABLES
  users,          \* table users: id -> [email, name, role, approval_status, points, level]
  posts,          \* table posts: id -> [user_id, likes_count, comments_count]
  post_likes,     \* table post_likes: set of [id, post_id, user_id]
  nextLikeId,     \* fresh primary keys of post_likes
  comments,       \* table comments: id -> [post_id, user_id, parent_id, replies_count]
  nextCommentId,  \* fresh primary keys of comments
  sessUser,       \* auth.uid() of each client session
  sess,           \* per session: component state and the position in its handler
  sumDeltas,      \* history: per user, sum of the point deltas of operations that took effect
  lastAction,     \* history: per user, branch taken by the user's last completed handleLike
  adjusts,        \* history: per counter, what the adjustments requested so far add up to
  lastDelete,     \* history: the last completed handleDeleteComment
  banned_emails,  \* table banned_emails: the stored email values (UNIQUE)
  authUsers,      \* accounts of the identity provider: set of [id, email]
  notifications,  \* table notifications: set of [user_id, type]
  reg,            \* registerUser calls: call -> inputs, position, result
  listOps,        \* deny-list edits attempted so far
  user_bans,      \* table user_bans: set of [id, user_id, banned_by, active]
  login,          \* loginUser calls: user -> position, what the call read, result
  unbanned,       \* history: emails taken off the deny-list and not put back since
  user_progress,  \* table user_progress: set of [id, user_id, lesson_id, completed]
  lessonView      \* CourseDetail/LessonViewer per session: position, completedLessons

threadVars == <<posts, post_likes, nextLikeId, comments, nextCommentId,
                sumDeltas, lastAction, adjusts, lastDelete>>

regVars == <<banned_emails, authUsers, notifications, reg, listOps>>

lessonVars == <<user_progress, lessonView>>
modVars == <<user_bans, login, unbanned, lessonVars>>

vars == <<users, sessUser, sess, threadVars, regVars, modVars>>

\* ------------------------------------------------------ store: functions
\* increment_post_likes with the addition left out
increment_post_likes_noop(count) == count

\* increment_post_likes: UPDATE posts SET likes_count = likes_count + 1
increment_post_likes(count) == count + 1

\* decrement_post_likes without GREATEST
decrement_post_likes_plain(count) == count - 1

\* decrement_post_likes: UPDATE posts SET likes_count = GREATEST(likes_count - 1, 0)
decrement_post_likes(count) == IF count - 1 > 0 THEN count - 1 ELSE 0

\* is_admin that also accepts moderators
is_admin_lax(uid) == uid \in DOMAIN users /\ users[uid].role \in {"admin", "moderator"}

is_admin(uid) == uid \in DOMAIN users /\ users[uid].role = "admin"

is_admin_or_moderator(uid) ==
  uid \in DOMAIN users /\ users[uid].role \in {"admin", "moderator"}

\* ------------------------------------------- store: row level security
\* UPDATE on users.  The permissive policies are OR-ed in name order
\* (users_update_admin_policy, users_update_moderator_policy,
\* users_update_own_policy).  The moderator policy compares the new row with
\* (SELECT role FROM users WHERE id = users.id): inside the sub-select
\* users.id is the sub-select's own row, so it returns every row of the table
\* and raises an error as soon as the table holds more than one row.
\* Result: "ok" (row written), "denied" (no row matched, no error), "error".
users_update(uid, id, new) ==
  LET usingOwn == uid = id
      usingAdmin == is_admin(uid)
      usingMod == is_admin_or_moderator(uid) /\ ~is_admin(uid)
      checkOwn == /\ uid = id
                  /\ new.role = users[uid].role
                  /\ new.approval_status = users[uid].approval_status
      oneRow == Cardinality(DOMAIN users) = 1
      checkMod == /\ usingMod
                  /\ \A r \in DOMAIN users :
                        new.role = users[r].role /\ new.approval_status = users[r].approval_status
  IN  IF id \notin DOMAIN users \/ uid \notin DOMAIN users \/ ~(usingOwn \/ usingAdmin \/ usingMod)
        THEN "denied"
      ELSE IF usingAdmin THEN "ok"
      ELSE IF usingMod /\ ~oneRow THEN "error"
      ELSE IF checkMod \/ checkOwn THEN "ok"
      ELSE "error"

\* UPDATE on posts: "Users can update own posts", "Admins can update any post"
posts_update(uid, id) ==
  uid = posts[id].user_id \/ is_admin_or_moderator(uid)

\* INSERT on post_likes: "Authenticated users can like posts"
post_likes_insert(uid, row) == uid = row.user_id

\* DELETE on post_likes: "Users can unlike posts"
post_likes_delete(uid, row) == uid = row.user_id

\* ------------------------------------------------------------- helpers
LikesOf(p) == {l \in post_likes : l.post_id = p}

SetPoints(uid, id, value) ==
  IF id \in DOMAIN users /\ users_update(uid, id, [users[id] EXCEPT !.points = value]) = "ok"
    THEN [users EXCEPT ![id].points = value]
    ELSE users

\* getCurrentUser(): the users row as the client keeps it in the currentUser prop
UserRow(id) == [id |-> id, role |-> users[id].role, points |-> users[id].points]

\* Feed.loadPosts: the posts as the feed keeps them; of each row the handlers
\* later read only comments_count (through the post prop of PostDetail).
loadPosts == [p \in DOMAIN posts |-> [comments_count |-> posts[p].comments_count]]

\* ---------------------------------------------------------------- App
\* App.checkAuth: getCurrentUser() reads the users row into the currentUser
\* prop; it runs when the application is (re)loaded, not after a handler.
checkAuth(s) ==
  /\ sess[s].pc = "idle"
  /\ sessUser[s] \in DOMAIN users
  /\ sess' = [sess EXCEPT ![s].currentUser = UserRow(sessUser[s]),
                          ![s].feed = loadPosts, ![s].post = NoRow, ![s].comments = <<>>]
  /\ UNCHANGED <<modVars, regVars, users, posts, post_likes, nextLikeId, comments, nextCommentId,
                 sessUser, sumDeltas, lastAction, adjusts, lastDelete>>

\* ------------------------------------------------------- Feed.handleLike
\* const existingLike = select id from post_likes where post_id, user_id
handleLike_select(s, p) ==
  /\ sess[s].pc = "idle"
  /\ sess[s].post = NoRow
  /\ sess[s].ops < MaxOps
  /\ p \in DOMAIN sess[s].feed
  /\ LET mine == {l \in post_likes : l.post_id = p /\ l.user_id = sess[s].currentUser.id}
     IN  sess' = [sess EXCEPT ![s].pc = "like_write",
                              ![s].ops = @ + 1,
                              ![s].postId = p,
                              ![s].failed = FALSE,
                              ![s].changed = FALSE,
                              ![s].request = IF mine = {} THEN "like" ELSE "unlike",
                              ![s].existingLike =
                                 IF mine = {} THEN 0 ELSE (CHOOSE l \in mine : TRUE).id]
  /\ UNCHANGED <<modVars, regVars, users, posts, post_likes, nextLikeId, comments, nextCommentId,
                 sessUser, sumDeltas, lastAction, adjusts, lastDelete>>

\* if (existingLike) delete().eq('id', existingLike.id) else insert({post_id, user_id})
\* Neither result is inspected: a rejected insert (UNIQUE(post_id, user_id))
\* and a delete that matches no row both let the handler go on.
handleLike_write(s) ==
  /\ sess[s].pc = "like_write"
  /\ LET uid == sessUser[s]
         me == sess[s].currentUser.id
         p == sess[s].postId
         gone == {l \in post_likes : l.id = sess[s].existingLike /\ post_likes_delete(uid, l)}
         row == [id |-> nextLikeId, post_id |-> p, user_id |-> me]
         accepted == /\ post_likes_insert(uid, row)
                     /\ p \in DOMAIN posts
                     /\ ~\E l \in post_likes : l.post_id = p /\ l.user_id = me
     IN  IF sess[s].existingLike # 0
           THEN /\ post_likes' = post_likes \ gone
                /\ nextLikeId' = nextLikeId
                /\ sumDeltas' = IF gone # {} THEN [sumDeltas EXCEPT ![me] = @ - 2] ELSE sumDeltas
           ELSE /\ post_likes' = IF accepted THEN post_likes \cup {row} ELSE post_likes
                /\ nextLikeId' = IF accepted THEN nextLikeId + 1 ELSE nextLikeId
                /\ sumDeltas' = IF accepted THEN [sumDeltas EXCEPT ![me] = @ + 2] ELSE sumDeltas
  /\ sess' = [sess EXCEPT ![s].pc = "like_rpc",
                          ![s].failed = sess[s].existingLike = 0 /\ post_likes' = post_likes,
                          ![s].changed = post_likes' # post_likes]
  /\ UNCHANGED <<modVars, regVars, users, posts, comments, nextCommentId, sessUser, lastAction,
                 adjusts, lastDelete>>

\* rpc('decrement_post_likes') or rpc('increment_post_likes'); SECURITY DEFINER
handleLike_rpc(s) ==
  /\ sess[s].pc = "like_rpc"
  /\ LET p == sess[s].postId
         d == IF sess[s].existingLike # 0 THEN -1 ELSE 1
     IN  /\ posts' = IF p \notin DOMAIN posts THEN posts
                       ELSE [posts EXCEPT ![p].likes_count =
                               IF sess[s].existingLike # 0
                                 THEN decrement_post_likes(@) ELSE increment_post_likes(@)]
         /\ adjusts' = [adjusts EXCEPT !.likes_count = @ + d]
  /\ sess' = [sess EXCEPT ![s].pc = "like_points", ![s].changed = @ \/ posts' # posts]
  /\ UNCHANGED <<modVars, regVars, users, post_likes, nextLikeId, comments, nextCommentId, sessUser,
                 sumDeltas, lastAction, lastDelete>>

\* update({points: currentUser.points -/+ 2}).eq('id', currentUser.id); loadPosts()
handleLike_points(s) ==
  /\ sess[s].pc = "like_points"
  /\ LET me == sess[s].currentUser.id
         d == IF sess[s].existingLike # 0 THEN -2 ELSE 2
     IN  /\ users' = SetPoints(sessUser[s], me, sess[s].currentUser.points + d)
         /\ lastAction' = [lastAction EXCEPT ![me] =
                              IF sess[s].existingLike # 0 THEN "unlike" ELSE "like"]
  /\ sess' = [sess EXCEPT ![s].pc = "idle", ![s].postId = "none", ![s].existingLike = 0,
                          ![s].feed = loadPosts, ![s].changed = @ \/ users' # users]
  /\ UNCHANGED <<modVars, regVars, posts, post_likes, nextLikeId, comments, nextCommentId, sessUser,
                 sumDeltas, adjusts, lastDelete>>

handleLike(s) ==
  \/ \E p \in Posts : handleLike_select(s, p)
  \/ handleLike_write(s)
  \/ handleLike_rpc(s)
  \/ handleLike_points(s)


\* handler invocations on the open post so far, over all sessions
ThreadOps == sess["s1"].ops + sess["s2"].ops + sess["s3"].ops

\* ------------------------------------------------------------ CreatePost
\* INSERT on posts: "Authenticated users can create posts"
posts_insert(uid, row) == uid = row.user_id

\* ids the store gives to the posts created during a run
NewPostIds == <<"n1", "n2", "n3", "n4", "n5", "n6", "n7", "n8">>

\* CreatePost.handleSubmit without images: insert({user_id, title, content,
\* ..., likes_count: 0, comments_count: 0}); if (error) throw error
CreatePost_insert(s) ==
  /\ sess[s].pc = "idle"
  /\ sess[s].post = NoRow
  /\ ThreadOps < MaxPosts
  /\ Cardinality(DOMAIN posts) <= Len(NewPostIds)
  /\ LET me == sess[s].currentUser.id
         id == NewPostIds[Cardinality(DOMAIN posts)]
         row == [user_id |-> me, likes_count |-> 0, comments_count |-> 0]
     IN  IF posts_insert(sessUser[s], row)
           THEN /\ posts' = [q \in DOMAIN posts \cup {id} |-> IF q = id THEN row ELSE posts[q]]
                /\ sumDeltas' = [sumDeltas EXCEPT ![me] = @ + 5]
                /\ sess' = [sess EXCEPT ![s].pc = "post_points", ![s].ops = @ + 1]
           ELSE /\ sess' = [sess EXCEPT ![s].ops = @ + 1]
                /\ UNCHANGED <<posts, sumDeltas>>
  /\ UNCHANGED <<modVars, regVars, users, post_likes, nextLikeId, comments, nextCommentId,
                 sessUser, lastAction, adjusts, lastDelete>>

\* update({points: currentUser.points + 5}).eq('id', currentUser.id);
\* onClose(): setShowCreatePost(false); loadPosts()
CreatePost_points(s) ==
  /\ sess[s].pc = "post_points"
  /\ users' = SetPoints(sessUser[s], sess[s].currentUser.id, sess[s].currentUser.points + 5)
  /\ sess' = [sess EXCEPT ![s].pc = "idle", ![s].feed = loadPosts]
  /\ UNCHANGED <<modVars, regVars, posts, post_likes, nextLikeId, comments, nextCommentId,
                 sessUser, sumDeltas, lastAction, adjusts, lastDelete>>

CreatePost_handleSubmit(s) ==
  \/ CreatePost_insert(s)
  \/ CreatePost_points(s)

\* ---------------------------------------------------- store: comments
\* increment_comment_replies: SET replies_count = replies_count + 1
increment_comment_replies(count) == count + 1

\* decrement_comment_replies: SET replies_count = GREATEST(0, replies_count - 1)
decrement_comment_replies(count) == IF count - 1 > 0 THEN count - 1 ELSE 0

\* INSERT on comments: "Authenticated users can create comments"
comments_insert(uid, row) == uid = row.user_id

\* DELETE on comments: "Users can delete own comments" (the only DELETE policy)
comments_delete(uid, row) == uid = row.user_id

ChildrenOf(c) == {k \in DOMAIN comments : comments[k].parent_id = c}

\* comments.parent_id REFERENCES comments(id) ON DELETE CASCADE
RECURSIVE Descendants(_)
Descendants(c) == ChildrenOf(c) \cup UNION {Descendants(k) : k \in ChildrenOf(c)}

CommentsOf(p) == {c \in DOMAIN comments : comments[c].post_id = p}

Without(f, gone) == [c \in DOMAIN f \ gone |-> f[c]]

\* loadComments without the filter on the post
loadComments_all(p) ==
  [c \in DOMAIN comments |-> [parent_id |-> comments[c].parent_id, user_id |-> comments[c].user_id]]

\* PostDetail.loadComments: the comments of the open post as the view keeps them
loadComments(p) ==
  [c \in CommentsOf(p) |-> [parent_id |-> comments[c].parent_id, user_id |-> comments[c].user_id]]

\* Math.max(0, post.comments_count - deletionCount)
MathMax0(n) == IF n > 0 THEN n ELSE 0

\* ------------------------------------------------------ Feed / PostDetail
\* Feed: onClick={() => setSelectedPost(post)}; PostDetail mounts and loads
\* the comments.  The post prop is the row as the feed last loaded it.
openPost(s, p) ==
  /\ sess[s].pc = "idle"
  /\ sess[s].post = NoRow
  /\ p \in DOMAIN sess[s].feed
  /\ sess' = [sess EXCEPT ![s].post = [id |-> p, comments_count |-> sess[s].feed[p].comments_count],
                          ![s].comments = loadComments(p)]
  /\ UNCHANGED <<modVars, regVars, users, posts, post_likes, nextLikeId, comments, nextCommentId,
                 sessUser, sumDeltas, lastAction, adjusts, lastDelete>>

\* Feed: onBack={() => { setSelectedPost(null); loadPosts(); }}
onBack(s) ==
  /\ sess[s].pc = "idle"
  /\ sess[s].post # NoRow
  /\ sess' = [sess EXCEPT ![s].post = NoRow, ![s].comments = <<>>, ![s].feed = loadPosts]
  /\ UNCHANGED <<modVars, regVars, users, posts, post_likes, nextLikeId, comments, nextCommentId,
                 sessUser, sumDeltas, lastAction, adjusts, lastDelete>>

\* update({comments_count: value}).eq('id', post.id); the result is not inspected
SetCommentsCount(uid, p, value) ==
  IF p \in DOMAIN posts /\ posts_update(uid, p)
    THEN [posts EXCEPT ![p].comments_count = value]
    ELSE posts

Finish(s) ==
  [sess EXCEPT ![s].pc = "idle", ![s].parentId = 0, ![s].commentId = 0,
               ![s].deletionCount = 0, ![s].del = NoRow,
               ![s].comments = loadComments(sess[s].post.id)]

\* ------------------------------------- PostDetail.handleSubmitComment/Reply
\* insert({post_id, user_id, content, parent_id}); if (error) throw error
\* parentId = 0 stands for parent_id: null (handleSubmitComment).
handleSubmit_insert(s, parentId) ==
  /\ sess[s].pc = "idle"
  /\ sess[s].ops < MaxOps
  /\ ThreadOps < MaxThreadOps
  /\ sess[s].post # NoRow
  /\ parentId = 0 \/ parentId \in DOMAIN sess[s].comments
  /\ nextCommentId <= MaxInitComments + MaxNewComments
  /\ LET me == sess[s].currentUser.id
         row == [post_id |-> sess[s].post.id, user_id |-> me, parent_id |-> parentId,
                 replies_count |-> 0]
         accepted == /\ comments_insert(sessUser[s], row)
                     /\ row.post_id \in DOMAIN posts
                     /\ parentId = 0 \/ parentId \in DOMAIN comments
     IN  IF accepted
           THEN /\ comments' = [c \in DOMAIN comments \cup {nextCommentId} |->
                                  IF c = nextCommentId THEN row ELSE comments[c]]
                /\ nextCommentId' = nextCommentId + 1
                /\ sumDeltas' = [sumDeltas EXCEPT ![me] = @ + 3]
                /\ sess' = [sess EXCEPT ![s].pc = IF parentId = 0 THEN "comment_count"
                                                                  ELSE "reply_rpc",
                                        ![s].ops = @ + 1,
                                        ![s].parentId = parentId,
                                        ![s].failed = FALSE,
                                        ![s].changed = TRUE]
           ELSE /\ sess' = [sess EXCEPT ![s].ops = @ + 1, ![s].failed = TRUE,
                                        ![s].changed = FALSE]
                /\ UNCHANGED <<modVars, regVars, comments, nextCommentId, sumDeltas>>
  /\ UNCHANGED <<modVars, regVars, users, posts, post_likes, nextLikeId, sessUser, lastAction,
                 adjusts, lastDelete>>

\* rpc('increment_comment_replies', {comment_id: parentId}); SECURITY DEFINER
handleSubmitReply_rpc(s) ==
  /\ sess[s].pc = "reply_rpc"
  /\ LET c == sess[s].parentId
     IN  /\ comments' = IF c \in DOMAIN comments
                          THEN [comments EXCEPT ![c].replies_count = increment_comment_replies(@)]
                          ELSE comments
         /\ adjusts' = [adjusts EXCEPT !.replies_count =
                          [k \in DOMAIN @ \cup {c} |-> IF k = c THEN (IF c \in DOMAIN @ THEN @[c] ELSE 0) + 1
                                                                ELSE @[k]]]
  /\ sess' = [sess EXCEPT ![s].pc = "comment_count", ![s].changed = @ \/ comments' # comments]
  /\ UNCHANGED <<modVars, regVars, users, posts, post_likes, nextLikeId, nextCommentId, sessUser,
                 sumDeltas, lastAction, lastDelete>>

\* update({comments_count: post.comments_count + 1}).eq('id', post.id)
handleSubmit_count(s) ==
  /\ sess[s].pc = "comment_count"
  /\ posts' = SetCommentsCount(sessUser[s], sess[s].post.id, sess[s].post.comments_count + 1)
  /\ adjusts' = [adjusts EXCEPT !.comments_count = @ + 1]
  /\ sess' = [sess EXCEPT ![s].pc = "comment_points", ![s].changed = @ \/ posts' # posts]
  /\ UNCHANGED <<modVars, regVars, users, post_likes, nextLikeId, comments, nextCommentId, sessUser,
                 sumDeltas, lastAction, lastDelete>>

\* update({points: currentUser.points + 3}).eq('id', currentUser.id); loadComments()
handleSubmit_points(s) ==
  /\ sess[s].pc = "comment_points"
  /\ users' = SetPoints(sessUser[s], sess[s].currentUser.id, sess[s].currentUser.points + 3)
  /\ sess' = [Finish(s) EXCEPT ![s].changed = @ \/ users' # users]
  /\ UNCHANGED <<modVars, regVars, posts, post_likes, nextLikeId, comments, nextCommentId, sessUser,
                 sumDeltas, lastAction, adjusts, lastDelete>>

handleSubmitComment(s) ==
  \/ handleSubmit_insert(s, 0)
  \/ handleSubmit_count(s)
  \/ handleSubmit_points(s)

handleSubmitReply(s) ==
  \/ \E parentId \in DOMAIN sess[s].comments : handleSubmit_insert(s, parentId)
  \/ handleSubmitReply_rpc(s)


\* ------------------------------------------ PostDetail.handleDeleteComment
\* renderComment: canDelete = isAdmin || comment.user_id === currentUser.id
canDelete(currentUser, comment) ==
  currentUser.role \in {"admin", "moderator"} \/ comment.user_id = currentUser.id

\* select('id').eq('parent_id', commentId); deletionCount = 1 + replies.length
handleDeleteComment_select(s, commentId) ==
  /\ sess[s].pc = "idle"
  /\ sess[s].ops < MaxOps
  /\ ThreadOps < MaxThreadOps
  /\ sess[s].post # NoRow
  /\ commentId \in DOMAIN sess[s].comments
  /\ canDelete(sess[s].currentUser, sess[s].comments[commentId])
  /\ sess' = [sess EXCEPT ![s].pc = "delete_row",
                          ![s].ops = @ + 1,
                          ![s].commentId = commentId,
                          ![s].failed = FALSE,
                          ![s].changed = FALSE,
                          ![s].parentId = sess[s].comments[commentId].parent_id,
                          ![s].deletionCount = 1 + Cardinality(ChildrenOf(commentId))]
  /\ UNCHANGED <<modVars, regVars, users, posts, post_likes, nextLikeId, comments, nextCommentId,
                 sessUser, sumDeltas, lastAction, adjusts, lastDelete>>

\* from('comments').delete().eq('id', commentId); the cascade removes the
\* replies at every depth.  The result is not inspected.
handleDeleteComment_row(s) ==
  /\ sess[s].pc = "delete_row"
  /\ LET c == sess[s].commentId
         there == c \in DOMAIN comments
         allowed == there /\ comments_delete(sessUser[s], comments[c])
     IN  /\ comments' = IF allowed THEN Without(comments, {c} \cup Descendants(c)) ELSE comments
         /\ sess' = [sess EXCEPT ![s].pc = IF sess[s].parentId # 0 THEN "delete_rpc"
                                                                   ELSE "delete_count",
                                 ![s].changed = allowed,
                                 ![s].del = [existed |-> there,
                                             n |-> IF there THEN Cardinality(Descendants(c)) ELSE 0,
                                             removed |-> allowed,
                                             parent |-> "none"]]
  /\ UNCHANGED <<modVars, regVars, users, posts, post_likes, nextLikeId, nextCommentId, sessUser,
                 sumDeltas, lastAction, adjusts, lastDelete>>

\* if (parentId) rpc('decrement_comment_replies', {comment_id: parentId})
handleDeleteComment_rpc(s) ==
  /\ sess[s].pc = "delete_rpc"
  /\ LET c == sess[s].parentId
         after == IF c \in DOMAIN comments
                    THEN [comments EXCEPT ![c].replies_count = decrement_comment_replies(@)]
                    ELSE comments
     IN  /\ comments' = after
         /\ adjusts' = [adjusts EXCEPT !.replies_count =
                          [k \in DOMAIN @ \cup {c} |-> IF k = c THEN (IF c \in DOMAIN @ THEN @[c] ELSE 0) - 1
                                                                ELSE @[k]]]
         /\ sess' = [sess EXCEPT ![s].pc = "delete_count",
                                 ![s].changed = @ \/ after # comments,
                                 ![s].del.parent =
                                    IF c \in DOMAIN comments
                                      THEN comments[c].replies_count - after[c].replies_count
                                      ELSE "gone"]
  /\ UNCHANGED <<modVars, regVars, users, posts, post_likes, nextLikeId, nextCommentId, sessUser,
                 sumDeltas, lastAction, lastDelete>>

\* update({comments_count: Math.max(0, post.comments_count - deletionCount)}); loadComments()
handleDeleteComment_count(s) ==
  /\ sess[s].pc = "delete_count"
  /\ LET p == sess[s].post.id
     IN  /\ posts' = SetCommentsCount(sessUser[s], p,
                        MathMax0(sess[s].post.comments_count - sess[s].deletionCount))
         /\ lastDelete' = [existed |-> sess[s].del.existed, n |-> sess[s].del.n,
                           removed |-> sess[s].del.removed, parent |-> sess[s].del.parent,
                           hadParent |-> sess[s].parentId # 0,
                           before |-> posts[p].comments_count,
                           after |-> posts'[p].comments_count]
  /\ adjusts' = [adjusts EXCEPT !.comments_count = @ - sess[s].deletionCount]
  /\ sess' = [Finish(s) EXCEPT ![s].changed = @ \/ posts' # posts]
  /\ UNCHANGED <<modVars, regVars, users, post_likes, nextLikeId, comments, nextCommentId, sessUser,
                 sumDeltas, lastAction>>

handleDeleteComment(s) ==
  \/ \E commentId \in DOMAIN sess[s].comments : handleDeleteComment_select(s, commentId)
  \/ handleDeleteComment_row(s)
  \/ handleDeleteComment_rpc(s)
  \/ handleDeleteComment_count(s)


\* ------------------------------------------------ deleting a post
\* DELETE on posts: "Users can delete own posts", "Admins can delete any post"
posts_delete(uid, id) ==
  id \in DOMAIN posts /\ (uid = posts[id].user_id \/ is_admin_or_moderator(uid))

\* a foreign key to posts(id) without ON DELETE CASCADE semantics
cascade_none(rows, gone) == DOMAIN rows

\* post_id REFERENCES posts(id) ON DELETE CASCADE: the ids of rows that are
\* left when the posts in gone are deleted; rows: id -> post_id
cascade(rows, gone) == {r \in DOMAIN rows : rows[r] \notin gone}

\* DELETE FROM posts WHERE id = p with the cascades to post_likes and
\* comments (referential actions are not subject to row level security)
DeletePostRow(p) ==
  /\ posts' = Without(posts, {p})
  /\ post_likes' = LET kept == cascade([l \in post_likes |-> l.post_id], {p})
                   IN  {l \in post_likes : l \in kept}
  /\ comments' = LET kept == cascade([c \in DOMAIN comments |-> comments[c].post_id], {p})
                 IN  [c \in kept |-> comments[c]]

\* Feed.handleDeletePost (button rendered for role admin or moderator):
\* from('post_likes').delete().eq('post_id', postId)
handleDeletePost_likes(s, p) ==
  /\ sess[s].pc = "idle"
  /\ sess[s].post = NoRow
  /\ sess[s].ops < MaxOps
  /\ ThreadOps < MaxThreadOps
  /\ p \in DOMAIN sess[s].feed
  /\ sess[s].currentUser.role \in {"admin", "moderator"}
  /\ post_likes' = {l \in post_likes : ~(l.post_id = p /\ post_likes_delete(sessUser[s], l))}
  /\ sess' = [sess EXCEPT ![s].pc = "deletePost_comments", ![s].ops = @ + 1, ![s].postId = p]
  /\ UNCHANGED <<modVars, regVars, users, posts, nextLikeId, comments, nextCommentId, sessUser,
                 sumDeltas, lastAction, adjusts, lastDelete>>

\* from('comments').delete().eq('post_id', postId)
handleDeletePost_comments(s) ==
  /\ sess[s].pc = "deletePost_comments"
  /\ LET mine == {c \in CommentsOf(sess[s].postId) : comments_delete(sessUser[s], comments[c])}
     IN  comments' = Without(comments, mine \cup UNION {Descendants(c) : c \in mine})
  /\ sess' = [sess EXCEPT ![s].pc = "deletePost_post"]
  /\ UNCHANGED <<modVars, regVars, users, posts, post_likes, nextLikeId, nextCommentId, sessUser,
                 sumDeltas, lastAction, adjusts, lastDelete>>

\* from('posts').delete().eq('id', postId); loadPosts()
handleDeletePost_post(s) ==
  /\ sess[s].pc = "deletePost_post"
  /\ IF posts_delete(sessUser[s], sess[s].postId)
       THEN DeletePostRow(sess[s].postId)
       ELSE UNCHANGED <<posts, post_likes, comments>>
  /\ sess' = [sess EXCEPT ![s].pc = "idle", ![s].postId = "none",
                          ![s].feed = [q \in DOMAIN posts' |->
                                         [comments_count |-> posts'[q].comments_count]]]
  /\ UNCHANGED <<modVars, regVars, users, nextLikeId, nextCommentId, sessUser,
                 sumDeltas, lastAction, adjusts, lastDelete>>

handleDeletePost(s) ==
  \/ \E p \in Posts : handleDeletePost_likes(s, p)
  \/ handleDeletePost_comments(s)
  \/ handleDeletePost_post(s)

\* PostModeration.handleDeletePost (admin dashboard, role admin or
\* moderator): from('posts').delete().eq('id', postId); loadPosts()
PostModeration_handleDeletePost(s, p) ==
  /\ sess[s].pc = "idle"
  /\ sess[s].post = NoRow
  /\ sess[s].ops < MaxOps
  /\ ThreadOps < MaxThreadOps
  /\ p \in DOMAIN sess[s].feed
  /\ sess[s].currentUser.role \in {"admin", "moderator"}
  /\ IF posts_delete(sessUser[s], p)
       THEN DeletePostRow(p)
       ELSE UNCHANGED <<posts, post_likes, comments>>
  /\ sess' = [sess EXCEPT ![s].ops = @ + 1,
                          ![s].feed = [q \in DOMAIN posts' |->
                                         [comments_count |-> posts'[q].comments_count]]]
  /\ UNCHANGED <<modVars, regVars, users, nextLikeId, nextCommentId, sessUser,
                 sumDeltas, lastAction, adjusts, lastDelete>>


\* ------------------------------------------------------ lib/auth.ts
Emails == {<<"a", "x">>, <<"A", "x">>, <<"b", "x">>}

LowerChar(ch) == CASE ch = "A" -> "a" [] ch = "B" -> "b" [] OTHER -> ch

\* String.prototype.toLowerCase
toLowerCase(email) == [i \in DOMAIN email |-> LowerChar(email[i])]

RegIds == <<"r1", "r2", "r3", "r4">>

\* SELECT on banned_emails: "Anyone can check banned emails" USING (true);
\* select('email').eq('email', probe).maybeSingle(): text equality
banned_emails_select(probe) == {e \in banned_emails : e = probe}

\* INSERT on banned_emails: "Admins can ban emails" WITH CHECK (is_admin())
banned_emails_insert(uid) == is_admin(uid)

\* DELETE on banned_emails open to moderators as well
banned_emails_delete_staff(uid) == is_admin_or_moderator(uid)

\* DELETE on banned_emails: "Admins can unban emails" USING (is_admin())
banned_emails_delete(uid) == is_admin(uid)

\* INSERT on users: users_insert_policy WITH CHECK (auth.uid() = id);
\* users.email is UNIQUE (text equality)
users_insert(uid, id, row) ==
  /\ uid = id
  /\ id \notin DOMAIN users
  /\ \A u \in DOMAIN users : users[u].email # row.email

\* INSERT on notifications: "Users can create own notifications",
\* "Admins can create notifications"
notifications_insert(uid, row) == uid = row.user_id \/ is_admin(uid)

\* registerUser(email, password, name): the field checks and the deny-list
\* lookup.  valid: all fields present and the password has 6 characters.
registerUser_check(c, email, valid) ==
  /\ c \in 1..MaxRegs
  /\ c \notin DOMAIN reg
  /\ \A k \in 1..(c - 1) : k \in DOMAIN reg
  /\ LET bannedEmail == banned_emails_select(toLowerCase(email))
         call == [email |-> email, valid |-> valid, listed |-> email \in banned_emails,
                  unbanned |-> email \in unbanned, pc |-> "signUp", result |-> "none"]
     IN  reg' = [k \in DOMAIN reg \cup {c} |->
                   IF k # c THEN reg[k]
                   ELSE IF ~valid THEN [call EXCEPT !.pc = "done", !.result = "invalid"]
                   ELSE IF bannedEmail # {}
                     THEN [call EXCEPT !.pc = "done", !.result = "not allowed to register"]
                   ELSE call]
  /\ UNCHANGED <<modVars, users, sessUser, sess, threadVars, banned_emails, authUsers,
                 notifications, listOps>>

\* supabase.auth.signUp({email, password}); if (authError) throw authError
\* The identity provider keeps one account per address, compared without
\* regard to letter case.
registerUser_signUp(c) ==
  /\ c \in DOMAIN reg
  /\ reg[c].pc = "signUp"
  /\ IF \E a \in authUsers : a.email = toLowerCase(reg[c].email)
       THEN /\ reg' = [reg EXCEPT ![c].pc = "done", ![c].result = "error"]
            /\ UNCHANGED authUsers
       ELSE /\ authUsers' = authUsers \cup {[id |-> RegIds[c], email |-> toLowerCase(reg[c].email)]}
            /\ reg' = [reg EXCEPT ![c].pc = "profile"]
  /\ UNCHANGED <<modVars, users, sessUser, sess, threadVars, banned_emails, notifications, listOps>>

\* from('users').insert({id, email, ..., role: 'member', points: 0, level: 1,
\* approval_status: 'pending'}); if (profileError) throw profileError
registerUser_profile(c) ==
  /\ c \in DOMAIN reg
  /\ reg[c].pc = "profile"
  /\ LET id == RegIds[c]
         row == [email |-> reg[c].email, name |-> "n0", role |-> "member",
                 approval_status |-> "pending", points |-> 0, level |-> 1]
     IN  IF users_insert(id, id, row)
           THEN /\ users' = [u \in DOMAIN users \cup {id} |-> IF u = id THEN row ELSE users[u]]
                /\ reg' = [reg EXCEPT ![c].pc = "notify"]
           ELSE /\ reg' = [reg EXCEPT ![c].pc = "done", ![c].result = "error"]
                /\ UNCHANGED users
  /\ UNCHANGED <<modVars, sessUser, sess, threadVars, banned_emails, authUsers, notifications, listOps>>

\* try { notifications.insert({user_id, type: 'welcome'}) } catch {}; return {success: true}
\* delivered: the store carried the request out.
registerUser_notifyStep(c, delivered) ==
  /\ c \in DOMAIN reg
  /\ reg[c].pc = "notify"
  /\ LET row == [user_id |-> RegIds[c], type |-> "welcome"]
     IN  notifications' = IF delivered /\ notifications_insert(RegIds[c], row)
                            THEN notifications \cup {row} ELSE notifications
  /\ reg' = [reg EXCEPT ![c].pc = "done", ![c].result = "success"]
  /\ UNCHANGED <<modVars, users, sessUser, sess, threadVars, banned_emails, authUsers, listOps>>

registerUser_notify(c) == registerUser_notifyStep(c, TRUE)

registerUser(c) ==
  \/ \E email \in Emails, valid \in BOOLEAN : registerUser_check(c, email, valid)
  \/ registerUser_signUp(c)
  \/ registerUser_profile(c)
  \/ registerUser_notify(c)

\* The entries that are the same address as email, whatever the letter case.
SameAddress(email) == {e \in Emails : toLowerCase(e) = toLowerCase(email)}

\* Permanent block: the email of the blocked account is inserted into
\* banned_emails as it is stored.
banEmail(s, email) ==
  /\ listOps < MaxListOps
  /\ listOps' = listOps + 1
  /\ LET accepted == banned_emails_insert(sessUser[s])
     IN  /\ banned_emails' = IF accepted THEN banned_emails \cup {email} ELSE banned_emails
         /\ unbanned' = IF accepted THEN unbanned \ SameAddress(email) ELSE unbanned
  /\ sess' = [sess EXCEPT ![s].ops = @ + 1]
  /\ UNCHANGED <<lessonVars, user_bans, login, users, sessUser, threadVars, authUsers, notifications, reg>>

\* handleUnbanEmail whose delete matches no row
handleUnbanEmail_norow(s, email) ==
  /\ listOps < MaxListOps
  /\ email \in banned_emails
  /\ listOps' = listOps + 1
  /\ unbanned' = IF banned_emails_delete(sessUser[s])
                       /\ SameAddress(email) \cap (banned_emails \ {email}) = {}
                    THEN unbanned \cup {email} ELSE unbanned
  /\ sess' = [sess EXCEPT ![s].ops = @ + 1]
  /\ UNCHANGED <<lessonVars, user_bans, login, users, sessUser, threadVars, authUsers, notifications, reg,
                 banned_emails>>

\* BannedEmails.handleUnbanEmail: from('banned_emails').delete().eq('id', emailId)
\* of a listed entry.  The email counts as taken off the list when the
\* delete took effect and no entry for the same address is left.
handleUnbanEmail(s, email) ==
  /\ listOps < MaxListOps
  /\ email \in banned_emails
  /\ listOps' = listOps + 1
  /\ LET accepted == banned_emails_delete(sessUser[s])
     IN  /\ banned_emails' = IF accepted THEN banned_emails \ {email} ELSE banned_emails
         /\ unbanned' = IF accepted /\ SameAddress(email) \cap (banned_emails \ {email}) = {}
                          THEN unbanned \cup {email} ELSE unbanned
  /\ sess' = [sess EXCEPT ![s].ops = @ + 1]
  /\ UNCHANGED <<lessonVars, user_bans, login, users, sessUser, threadVars, authUsers, notifications, reg>>


\* ------------------------------------------- Admin/MemberApproval
\* MemberApproval.loadUsers: select ... from users, filtered by
\* approval_status = 'pending' or in ('pending', 'rejected'); runs on mount
\* and whenever the filter changes.
loadUsers(filter) ==
  LET shown == IF filter = "pending" THEN {"pending"} ELSE {"pending", "rejected"}
  IN  [u \in {v \in DOMAIN users : users[v].approval_status \in shown} |->
         [approval_status |-> users[u].approval_status]]

setFilter(s, filter) ==
  /\ sess[s].pc = "idle"
  /\ sess' = [sess EXCEPT ![s].filter = filter, ![s].pendingUsers = loadUsers(filter)]
  /\ UNCHANGED <<modVars, users, sessUser, threadVars, regVars>>

\* handleApprove / handleReject: update({approval_status}).eq('id', userId);
\* if (updateError) throw updateError.  The Approve button is rendered for
\* listed users whose listed status is pending or rejected, the Reject
\* button for listed status pending.
handleDecision_update(s, userId, decision) ==
  /\ sess[s].pc = "idle"
  /\ sess[s].ops < MaxDecisions
  /\ userId \in DOMAIN sess[s].pendingUsers
  /\ \/ decision = "approved" /\ sess[s].pendingUsers[userId].approval_status \in {"pending", "rejected"}
     \/ decision = "rejected" /\ sess[s].pendingUsers[userId].approval_status = "pending"
  /\ LET outcome == IF userId \in DOMAIN users
                      THEN users_update(sessUser[s], userId,
                                        [users[userId] EXCEPT !.approval_status = decision])
                      ELSE "denied"
     IN  /\ users' = IF outcome = "ok"
                       THEN [users EXCEPT ![userId].approval_status = decision]
                       ELSE users
         /\ sess' = [sess EXCEPT ![s].ops = @ + 1,
                                 ![s].pc = IF outcome = "error" THEN "idle" ELSE "notify",
                                 ![s].userId = IF outcome = "error" THEN "none" ELSE userId,
                                 ![s].decision = IF outcome = "error" THEN "none" ELSE decision]
  /\ UNCHANGED <<modVars, sessUser, threadVars, regVars>>

\* a notification step that reports an insert that did not happen
handleDecision_notifyStep_throw(s, delivered) ==
  /\ sess[s].pc = "notify"
  /\ LET row == [user_id |-> sess[s].userId,
                 type |-> IF sess[s].decision = "approved" THEN "approval" ELSE "rejection"]
         inserted == /\ delivered
                     /\ notifications_insert(sessUser[s], row)
                     /\ row.user_id \in DOMAIN users
     IN  /\ notifications' = IF inserted THEN notifications \cup {row} ELSE notifications
         /\ sess' = IF inserted
                      THEN [sess EXCEPT ![s].pc = "reload"]
                      ELSE [sess EXCEPT ![s].pc = "idle", ![s].userId = "none",
                                        ![s].decision = "none"]
  /\ UNCHANGED <<modVars, users, sessUser, threadVars, banned_emails, authUsers, reg, listOps>>

\* notifications.insert({user_id: userId, type: 'approval' | 'rejection'});
\* the result is not inspected.  delivered: the store carried the request
\* out (FALSE: it answered with an error, e.g. it could not be reached).
handleDecision_notifyStep(s, delivered) ==
  /\ sess[s].pc = "notify"
  /\ LET row == [user_id |-> sess[s].userId,
                 type |-> IF sess[s].decision = "approved" THEN "approval" ELSE "rejection"]
     IN  notifications' = IF /\ delivered
                             /\ notifications_insert(sessUser[s], row)
                             /\ row.user_id \in DOMAIN users
                            THEN notifications \cup {row} ELSE notifications
  /\ sess' = [sess EXCEPT ![s].pc = "reload"]
  /\ UNCHANGED <<modVars, users, sessUser, threadVars, banned_emails, authUsers, reg, listOps>>

handleDecision_notify(s) == handleDecision_notifyStep(s, TRUE)

\* await loadUsers()
handleDecision_reload(s) ==
  /\ sess[s].pc = "reload"
  /\ sess' = [sess EXCEPT ![s].pc = "idle", ![s].userId = "none", ![s].decision = "none",
                          ![s].pendingUsers = loadUsers(sess[s].filter)]
  /\ UNCHANGED <<modVars, users, sessUser, threadVars, regVars>>

handleApprove(s) ==
  \E userId \in DOMAIN sess[s].pendingUsers : handleDecision_update(s, userId, "approved")

handleReject(s) ==
  \E userId \in DOMAIN sess[s].pendingUsers : handleDecision_update(s, userId, "rejected")

\* ------------------------------------------------ Admin/UserManagement
RECURSIVE LoginCalls(_)
LoginCalls(S) ==
  IF S = {} THEN 0
  ELSE LET u == CHOOSE x \in S : TRUE IN login[u].calls + LoginCalls(S \ {u})

\* handler invocations of the admin pages and the profile page, registerUser
\* calls and loginUser calls so far
ModOps ==
  sess["s1"].ops + sess["s2"].ops + sess["s3"].ops
    + Cardinality(DOMAIN reg) + LoginCalls(DOMAIN login)

\* AdminDashboard: rendered when the currentUser prop (read at sign-in) has
\* role admin or moderator
AdminDashboard(s) == sess[s].currentUser.role \in {"admin", "moderator"}

\* INSERT / UPDATE on user_bans: a ban is an admin or moderator action
user_bans_write(uid) == is_admin_or_moderator(uid)

\* UserManagement.loadBans: select * from user_bans where active = true
loadBans == {b.user_id : b \in {r \in user_bans : r.active}}

\* UserManagement.handleChangeRole: update({role: newRole}).eq('id', userId);
\* on error alert and return, otherwise loadUsers().  The buttons are
\* rendered for every listed user but the current one; the button of the
\* role the user has is disabled.
handleChangeRole(s, userId, newRole) ==
  /\ sess[s].pc = "idle"
  /\ ModOps < MaxModOps
  /\ AdminDashboard(s)
  /\ userId \in DOMAIN users
  /\ userId # sess[s].currentUser.id
  /\ userId \notin sess[s].bans
  /\ users[userId].role # newRole
  /\ LET new == [users[userId] EXCEPT !.role = newRole]
     IN  users' = IF users_update(sessUser[s], userId, new) = "ok"
                    THEN [users EXCEPT ![userId] = new] ELSE users
  /\ sess' = [sess EXCEPT ![s].ops = @ + 1]
  /\ UNCHANGED <<sessUser, threadVars, regVars, modVars>>

\* UserManagement.handleBanUser: user_bans.insert({user_id, banned_by,
\* reason, active: true}); on error alert and return
handleBanUser_insert(s, userId) ==
  /\ sess[s].pc = "idle"
  /\ ModOps < MaxModOps
  /\ AdminDashboard(s)
  /\ userId \in DOMAIN users
  /\ userId # sess[s].currentUser.id
  /\ userId \notin sess[s].bans
  /\ LET row == [id |-> Cardinality(user_bans) + 1, user_id |-> userId,
                 banned_by |-> sess[s].currentUser.id, active |-> TRUE]
         accepted == user_bans_write(sessUser[s])
     IN  /\ user_bans' = IF accepted THEN user_bans \cup {row} ELSE user_bans
         /\ sess' = [sess EXCEPT ![s].ops = @ + 1,
                                 ![s].pc = IF accepted THEN "loadBans" ELSE "idle"]
  /\ UNCHANGED <<users, sessUser, threadVars, regVars, login, unbanned, lessonVars>>

\* UserManagement.handleUnbanUser: user_bans.update({active: false,
\* unbanned_at}).eq('user_id', userId).eq('active', true)
handleUnbanUser_update(s, userId) ==
  /\ sess[s].pc = "idle"
  /\ ModOps < MaxModOps
  /\ AdminDashboard(s)
  /\ userId \in sess[s].bans
  /\ userId # sess[s].currentUser.id
  /\ LET accepted == user_bans_write(sessUser[s])
     IN  /\ user_bans' = IF accepted
                           THEN {IF b.user_id = userId THEN [b EXCEPT !.active = FALSE] ELSE b :
                                   b \in user_bans}
                           ELSE user_bans
         /\ sess' = [sess EXCEPT ![s].ops = @ + 1,
                                 ![s].pc = IF accepted THEN "loadBans" ELSE "idle"]
  /\ UNCHANGED <<users, sessUser, threadVars, regVars, login, unbanned, lessonVars>>

\* loadBans() after a ban or an unban
handleBan_loadBans(s) ==
  /\ sess[s].pc = "loadBans"
  /\ sess' = [sess EXCEPT ![s].pc = "idle", ![s].bans = loadBans]
  /\ UNCHANGED <<users, sessUser, threadVars, regVars, modVars>>

handleBanUser(s) == \E userId \in DOMAIN users : handleBanUser_insert(s, userId)

handleUnbanUser(s) == \E userId \in DOMAIN users : handleUnbanUser_update(s, userId)

\* ------------------------------------------------------ profile writes
Names == {"n0", "n1"}

\* A request of a signed-in client on its own users row:
\* from('users').update(patch).eq('id', auth.uid()).  patch names the
\* columns to write; "keep" (<<>> for a number) leaves a column out of the
\* patch.
Patches ==
  [name : {"keep", "n1"}, role : {"keep", "admin", "member"},
   approval_status : {"keep", "approved", "pending"},
   points : {<<>>}, level : {<<>>}]

\* Requests that write points and level: update({points, level}).eq('id', id)
PointPatches ==
  [name : {"keep"}, role : {"keep"}, approval_status : {"keep"},
   points : {<<>>, <<7>>}, level : {<<>>, <<2>>}]

Patched(row, patch) ==
  [row EXCEPT !.name = IF patch.name = "keep" THEN @ ELSE patch.name,
              !.role = IF patch.role = "keep" THEN @ ELSE patch.role,
              !.approval_status =
                 IF patch.approval_status = "keep" THEN @ ELSE patch.approval_status,
              !.points = IF patch.points = <<>> THEN @ ELSE patch.points[1],
              !.level = IF patch.level = <<>> THEN @ ELSE patch.level[1]]

usersUpdateRequest(s, id, patch) ==
  /\ sess[s].pc = "idle"
  /\ ModOps < MaxModOps
  /\ sessUser[s] \in DOMAIN users
  /\ id \in DOMAIN users
  /\ LET new == Patched(users[id], patch)
     IN  users' = IF users_update(sessUser[s], id, new) = "ok"
                    THEN [users EXCEPT ![id] = new] ELSE users
  /\ sess' = [sess EXCEPT ![s].ops = @ + 1]
  /\ UNCHANGED <<sessUser, threadVars, regVars, modVars>>

selfUpdate(s, patch) == usersUpdateRequest(s, sessUser[s], patch)

\* handleSave that also resubmits the profile for approval
handleSave_resubmit(s, name) ==
  selfUpdate(s, [name |-> name, role |-> "keep", approval_status |-> "pending",
                 points |-> <<>>, level |-> <<>>])

\* Profile.handleSave: update({name, bio, avatar}).eq('id', currentUser.id);
\* if (error) throw error
handleSave(s, name) ==
  selfUpdate(s, [name |-> name, role |-> "keep", approval_status |-> "keep",
                 points |-> <<>>, level |-> <<>>])

\* ------------------------------------- Courses: CourseDetail, LessonViewer
Lessons == {"l1", "l2"}

\* lessons.points INTEGER DEFAULT 10
LessonPoints == 10

\* The course pages are not mounted.
ClosedView ==
  [pc |-> "idle", open |-> FALSE, completedLessons |-> {}, lesson |-> "none", existing |-> 0,
   marks |-> 0]

\* SELECT on user_progress: "Users can view own progress"
user_progress_select(uid, row) == uid = row.user_id

\* INSERT on user_progress without UNIQUE(user_id, lesson_id)
user_progress_insert_any(uid, row) == uid = row.user_id

\* INSERT on user_progress: "Users can insert own progress", UNIQUE(user_id, lesson_id)
user_progress_insert(uid, row) ==
  /\ uid = row.user_id
  /\ ~\E r \in user_progress : r.user_id = row.user_id /\ r.lesson_id = row.lesson_id

\* UPDATE on user_progress: "Users can update own progress"
user_progress_update(uid, row) == uid = row.user_id

\* CourseDetail.loadLessons: the lessons of the user with a completed row
loadLessons(s) ==
  {r.lesson_id : r \in {q \in user_progress :
                          /\ user_progress_select(sessUser[s], q)
                          /\ q.user_id = sess[s].currentUser.id
                          /\ q.completed}}

\* CourseDetail.isLessonUnlocked: the first lesson, or one whose previous
\* lesson the view shows as completed ("l1" has order_num 1, "l2" has 2)
isLessonUnlocked(s, lesson) == lesson = "l1" \/ "l1" \in lessonView[s].completedLessons

\* The user opens the course and a lesson (CourseDetail mounts: loadLessons),
\* or comes back from a lesson (onBack: loadLessons).
CourseDetail_loadLessons(s) ==
  /\ sess[s].pc = "idle"
  /\ lessonView[s].pc = "idle"
  /\ lessonView' = [lessonView EXCEPT ![s].open = TRUE, ![s].completedLessons = loadLessons(s)]
  /\ UNCHANGED <<users, sessUser, sess, threadVars, regVars, user_bans, login, unbanned,
                 user_progress>>

\* App.checkAuth while a course page is on screen: App renders the loading
\* screen, the pages are unmounted, getCurrentUser() refreshes currentUser.
checkAuth_unmount(s) ==
  /\ sess[s].pc = "idle"
  /\ lessonView[s].pc = "idle"
  /\ sessUser[s] \in DOMAIN users
  /\ sess' = [sess EXCEPT ![s].currentUser = UserRow(sessUser[s]),
                          ![s].feed = loadPosts, ![s].post = NoRow, ![s].comments = <<>>]
  /\ lessonView' = [lessonView EXCEPT ![s].open = FALSE, ![s].completedLessons = {}]
  /\ UNCHANGED <<users, sessUser, threadVars, regVars, user_bans, login, unbanned, user_progress>>

\* handleMarkComplete: if (isCompleted) return; select('id') from
\* user_progress where user_id, lesson_id (maybeSingle)
handleMarkComplete_select(s, lesson) ==
  /\ lessonView[s].pc = "idle"
  /\ lessonView[s].open
  /\ isLessonUnlocked(s, lesson)
  /\ lesson \notin lessonView[s].completedLessons
  /\ lessonView[s].marks < MaxMarks
  /\ LET mine == {r \in user_progress : /\ user_progress_select(sessUser[s], r)
                                         /\ r.user_id = sess[s].currentUser.id
                                         /\ r.lesson_id = lesson}
     IN  lessonView' = [lessonView EXCEPT
                          ![s].pc = "write",
                          ![s].lesson = lesson,
                          ![s].marks = @ + 1,
                          ![s].existing = IF mine = {} THEN 0 ELSE (CHOOSE r \in mine : TRUE).id]
  /\ UNCHANGED <<users, sessUser, sess, threadVars, regVars, user_bans, login, unbanned,
                 user_progress>>

\* if (existing) update({completed: true}).eq('id', existing.id)
\* else insert({user_id, lesson_id, course_id, completed: true});
\* neither result is inspected
handleMarkComplete_write(s) ==
  /\ lessonView[s].pc = "write"
  /\ LET me == sess[s].currentUser.id
         row == [id |-> Cardinality(user_progress) + 1, user_id |-> me,
                 lesson_id |-> lessonView[s].lesson,
                 completed |-> TRUE]
     IN  user_progress' =
           IF lessonView[s].existing # 0
             THEN {IF r.id = lessonView[s].existing /\ user_progress_update(sessUser[s], r)
                     THEN [r EXCEPT !.completed = TRUE] ELSE r : r \in user_progress}
             ELSE IF user_progress_insert(sessUser[s], row)
                    THEN user_progress \cup {row} ELSE user_progress
  /\ lessonView' = [lessonView EXCEPT ![s].pc = "points"]
  /\ UNCHANGED <<users, sessUser, sess, threadVars, regVars, user_bans, login, unbanned>>

\* update({points: currentUser.points + lesson.points}).eq('id', currentUser.id);
\* onComplete(): loadLessons()
handleMarkComplete_points(s) ==
  /\ lessonView[s].pc = "points"
  /\ users' = SetPoints(sessUser[s], sess[s].currentUser.id,
                        sess[s].currentUser.points + LessonPoints)
  /\ lessonView' = [lessonView EXCEPT ![s].pc = "idle", ![s].existing = 0,
                                      ![s].completedLessons = loadLessons(s)]
  /\ UNCHANGED <<sessUser, sess, threadVars, regVars, user_bans, login, unbanned, user_progress>>

handleMarkComplete(s) ==
  \/ \E lesson \in Lessons : handleMarkComplete_select(s, lesson)
  \/ handleMarkComplete_write(s)
  \/ handleMarkComplete_points(s)

\* ------------------------------------------------- lib/auth.ts loginUser
\* supabase.auth.signInWithPassword({email, password}); if (error) throw error
loginUser_signIn(u, password) ==
  /\ u \in DOMAIN login
  /\ login[u].pc = "idle"
  /\ login[u].calls < MaxLogins
  /\ LET account == \E a \in authUsers : a.id = u
         banned == \E b \in user_bans : b.user_id = u /\ b.active
     IN  login' = [login EXCEPT ![u] =
                     IF account /\ password = "right"
                       THEN [@ EXCEPT !.pc = "select", !.calls = @ + 1, !.signedIn = TRUE,
                                      !.banned = banned, !.result = "none", !.isPending = FALSE]
                       ELSE [@ EXCEPT !.calls = @ + 1, !.signedIn = FALSE,
                                      !.banned = banned, !.result = "error", !.isPending = FALSE]]
  /\ UNCHANGED <<users, sessUser, sess, threadVars, regVars, user_bans, unbanned, lessonVars>>

\* from('users').select('approval_status, role').eq('id', data.user.id).maybeSingle()
loginUser_select(u) ==
  /\ u \in DOMAIN login
  /\ login[u].pc = "select"
  /\ login' = [login EXCEPT ![u].pc = "finish",
                            ![u].userData =
                               IF u \in DOMAIN users
                                 THEN [approval_status |-> users[u].approval_status,
                                       role |-> users[u].role]
                                 ELSE NoRow]
  /\ UNCHANGED <<users, sessUser, sess, threadVars, regVars, user_bans, unbanned, lessonVars>>

\* loginUser_finish that gates every pending user, whatever the role
loginUser_finish_gateAll(u) ==
  /\ u \in DOMAIN login
  /\ login[u].pc = "finish"
  /\ LET userData == login[u].userData
         rejected == userData # NoRow /\ userData.approval_status = "rejected"
     IN  /\ login' = [login EXCEPT ![u] =
                        IF rejected
                          THEN [@ EXCEPT !.pc = "idle", !.signedIn = FALSE, !.result = "error"]
                          ELSE [@ EXCEPT !.pc = "idle", !.result = "success",
                                         !.isPending = /\ userData # NoRow
                                                       /\ userData.approval_status = "pending"]]
         /\ users' = IF ~rejected /\ u \in DOMAIN users /\ users_update(u, u, users[u]) = "ok"
                       THEN [users EXCEPT ![u] = users[u]] ELSE users
  /\ UNCHANGED <<sessUser, sess, threadVars, regVars, user_bans, unbanned, lessonVars>>

\* if rejected: signOut() and throw; otherwise update({last_active}) on the
\* own row (result not inspected) and return {success: true, isPending}
loginUser_finish(u) ==
  /\ u \in DOMAIN login
  /\ login[u].pc = "finish"
  /\ LET userData == login[u].userData
         rejected == userData # NoRow /\ userData.approval_status = "rejected"
     IN  /\ login' = [login EXCEPT ![u] =
                        IF rejected
                          THEN [@ EXCEPT !.pc = "idle", !.signedIn = FALSE, !.result = "error"]
                          ELSE [@ EXCEPT !.pc = "idle", !.result = "success",
                                         !.isPending = /\ userData # NoRow
                                                       /\ userData.approval_status = "pending"
                                                       /\ userData.role = "member"]]
         /\ users' = IF ~rejected /\ u \in DOMAIN users /\ users_update(u, u, users[u]) = "ok"
                       THEN [users EXCEPT ![u] = users[u]] ELSE users
  /\ UNCHANGED <<sessUser, sess, threadVars, regVars, user_bans, unbanned, lessonVars>>

loginUser(u) ==
  \/ \E password \in {"right", "wrong"} : loginUser_signIn(u, password)
  \/ loginUser_select(u)
  \/ loginUser_finish(u)

\* -------------------------------------------------- specification: likes
Member(u, points) ==
  [email |-> <<u>>, name |-> "n0", role |-> "member", approval_status |-> "approved",
   points |-> points, level |-> 1]

\* Nobody is banned and nobody signs in during the run.
NoModeration ==
  /\ user_bans = {}
  /\ login = <<>>
  /\ unbanned = {}
  /\ user_progress = {}
  /\ lessonView = [s \in Sessions |-> ClosedView]

\* Nobody registers and the deny-list stays empty.
NoRegistration ==
  /\ banned_emails = {}
  /\ authUsers = {}
  /\ notifications = {}
  /\ reg = <<>>
  /\ listOps = 0
  /\ NoModeration

\* A session right after the application and the feed were loaded.
FreshSess(u) ==
  [pc |-> "idle", ops |-> 0, currentUser |-> UserRow(u), feed |-> loadPosts,
   postId |-> "none", existingLike |-> 0,
   post |-> NoRow, comments |-> <<>>, parentId |-> 0, commentId |-> 0,
   deletionCount |-> 0, del |-> NoRow, failed |-> FALSE, changed |-> FALSE,
   request |-> "none"]

\* The store as a run finds it: some users already like the post, each like
\* was counted and paid for (+2).
InitStore(liked) ==
  /\ users = [u \in Members |-> Member(u, IF u \in liked THEN 2 ELSE 0)]
  /\ posts = [p \in Posts |-> [user_id |-> "u1", likes_count |-> Cardinality(liked),
                                comments_count |-> 0]]
  /\ post_likes = {[id |-> i, post_id |-> "p1", user_id |-> u] :
                     <<i, u>> \in {<<1, "u1">>, <<2, "u2">>, <<3, "u3">>} \cap
                                  ((1..3) \X liked)}
  /\ nextLikeId = 4
  /\ comments = <<>>
  /\ nextCommentId = 1
  /\ sumDeltas = [u \in Members |-> IF u \in liked THEN 2 ELSE 0]
  /\ lastAction = [u \in Members |-> IF u \in liked THEN "like" ELSE "none"]
  /\ adjusts = [likes_count |-> Cardinality(liked), comments_count |-> 0,
                replies_count |-> <<>>]
  /\ lastDelete = NoRow
  /\ NoRegistration

\* Two sessions of user u1 (two tabs or devices) and one session of u2.
SharedUser == [s \in Sessions |-> IF s = "s3" THEN "u2" ELSE "u1"]

\* One session per user.
DistinctUsers == [s \in Sessions |-> CASE s = "s1" -> "u1" [] s = "s2" -> "u2" [] OTHER -> "u3"]

InitLike ==
  /\ \E liked \in SUBSET Members : InitStore(liked)
  /\ sessUser = SharedUser
  /\ sess = [s \in Sessions |-> FreshSess(sessUser[s])]

InitLikeDistinct ==
  /\ \E liked \in SUBSET Members : InitStore(liked)
  /\ sessUser = DistinctUsers
  /\ sess = [s \in Sessions |-> FreshSess(sessUser[s])]

NextLike == \E s \in Sessions : checkAuth(s) \/ handleLike(s)

SpecLike == InitLike /\ [][NextLike]_vars

SpecLikeDistinct == InitLikeDistinct /\ [][NextLike]_vars

\* ------------------------------------------------ specification: threads
ThreadSessions == {"s1", "s2"}

\* u1 owns the post; u2 is another member; u3 moderates.
ThreadRole(u) == IF u = "u3" THEN "moderator" ELSE "member"

InitAuthor(c) == IF c % 2 = 1 THEN "u1" ELSE "u2"

\* The comment trees a run may find: n comments, each a top-level comment
\* (0) or a reply to an older one; every counter agrees with the rows.
InitForests ==
  UNION {[1..n -> 0..n] : n \in 0..MaxInitComments}

InitThread ==
  /\ \E parent \in InitForests :
       /\ \A c \in DOMAIN parent : parent[c] < c
       /\ comments = [c \in DOMAIN parent |->
                        [post_id |-> "p1", user_id |-> InitAuthor(c), parent_id |-> parent[c],
                         replies_count |-> Cardinality({k \in DOMAIN parent : parent[k] = c})]]
       /\ nextCommentId = Len(parent) + 1
  /\ posts = [p \in Posts |-> [user_id |-> "u1", likes_count |-> 0,
                                comments_count |-> Cardinality(DOMAIN comments)]]
  /\ users = [u \in Members |->
                [email |-> <<u>>, name |-> "n0", role |-> ThreadRole(u),
                 approval_status |-> "approved",
                 points |-> 3 * Cardinality({c \in DOMAIN comments : comments[c].user_id = u}),
                 level |-> 1]]
  /\ post_likes = {}
  /\ nextLikeId = 1
  /\ sumDeltas = [u \in Members |-> users[u].points]
  /\ lastAction = [u \in Members |-> "none"]
  /\ adjusts = [likes_count |-> 0, comments_count |-> posts["p1"].comments_count,
                replies_count |-> [c \in DOMAIN comments |-> comments[c].replies_count]]
  /\ lastDelete = NoRow
  /\ NoRegistration
  /\ sessUser \in [Sessions -> Members]
  /\ sessUser["s1"] = "u1"
  /\ sessUser["s2"] # "u1"
  /\ sessUser["s3"] = "u3"
  /\ sess = [s \in Sessions |-> FreshSess(sessUser[s])]

NextThread ==
  \E s \in ThreadSessions :
    \/ \E p \in Posts : openPost(s, p)
    \/ onBack(s)
    \/ handleSubmitComment(s)
    \/ handleSubmitReply(s)
    \/ handleDeleteComment(s)

SpecThread == InitThread /\ [][NextThread]_vars

\* ----------------------------------------------- specification: lessons
\* Two sessions of u1 (two tabs or devices) with no points and no lesson
\* completed yet.
InitLesson ==
  /\ InitStore({})
  /\ sessUser = SharedUser
  /\ sess = [s \in Sessions |-> FreshSess(sessUser[s])]

NextLesson ==
  \E s \in ThreadSessions :
    \/ CourseDetail_loadLessons(s)
    \/ checkAuth_unmount(s)
    \/ handleMarkComplete(s)

SpecLesson == InitLesson /\ [][NextLesson]_vars

\* ------------------------------------------------ specification: levels
\* initializeDatabase: two of the demo users, with the points and levels the
\* seed gives them.
demoUsers ==
  [jamesb |-> [points |-> 90, level |-> 1], lisam |-> [points |-> 120, level |-> 2]]

\* The seeded database, the demo users signed in (s1: jamesb; s2: lisam).
InitLevel ==
  /\ users = [u \in DOMAIN demoUsers |->
                [email |-> <<u>>, name |-> "n0", role |-> "member",
                 approval_status |-> "approved",
                 points |-> demoUsers[u].points, level |-> demoUsers[u].level]]
  /\ posts = [p \in Posts |-> [user_id |-> "lisam", likes_count |-> 0, comments_count |-> 0]]
  /\ post_likes = {}
  /\ nextLikeId = 1
  /\ comments = <<>>
  /\ nextCommentId = 1
  /\ sumDeltas = [u \in DOMAIN users |-> users[u].points]
  /\ lastAction = [u \in DOMAIN users |-> "none"]
  /\ adjusts = [likes_count |-> 0, comments_count |-> 0, replies_count |-> <<>>]
  /\ lastDelete = NoRow
  /\ NoRegistration
  /\ sessUser = [s \in Sessions |-> IF s = "s2" THEN "lisam" ELSE "jamesb"]
  /\ sess = [s \in Sessions |-> FreshSess(sessUser[s])]

NextLevel ==
  \E s \in ThreadSessions :
    \/ checkAuth(s)
    \/ CreatePost_handleSubmit(s)

SpecLevel == InitLevel /\ [][NextLevel]_vars

\* ---------------------------------------------- specification: counters
\* Two sessions of u1 (s1, s2) on a post with comments of u2 (the odd ones)
\* and of u1 (the even ones); u1 may already like the post.
InitCounters ==
  /\ \E parent \in InitForests, liked \in SUBSET {"u1"} :
       /\ \A c \in DOMAIN parent : parent[c] < c
       /\ comments = [c \in DOMAIN parent |->
                        [post_id |-> "p1", user_id |-> IF c % 2 = 1 THEN "u2" ELSE "u1",
                         parent_id |-> parent[c],
                         replies_count |-> Cardinality({k \in DOMAIN parent : parent[k] = c})]]
       /\ nextCommentId = Len(parent) + 1
       /\ post_likes = {[id |-> 1, post_id |-> "p1", user_id |-> u] : u \in liked}
       /\ posts = [p \in Posts |-> [user_id |-> "u1", likes_count |-> Cardinality(liked),
                                     comments_count |-> Cardinality(DOMAIN comments)]]
       /\ users = [u \in Members |->
                     Member(u, 3 * Cardinality({c \in DOMAIN comments : comments[c].user_id = u})
                               + (IF u \in liked THEN 2 ELSE 0))]
       /\ lastAction = [u \in Members |-> IF u \in liked THEN "like" ELSE "none"]
  /\ nextLikeId = 4
  /\ sumDeltas = [u \in Members |-> users[u].points]
  /\ adjusts = [likes_count |-> posts["p1"].likes_count,
                comments_count |-> posts["p1"].comments_count,
                replies_count |-> [c \in DOMAIN comments |-> comments[c].replies_count]]
  /\ lastDelete = NoRow
  /\ NoRegistration
  /\ sessUser = SharedUser
  /\ sess = [s \in Sessions |-> FreshSess(sessUser[s])]

NextCounters ==
  \E s \in ThreadSessions :
    \/ \E p \in Posts : openPost(s, p)
    \/ onBack(s)
    \/ (sess[s].pc # "idle" \/ ThreadOps < MaxCounterOps) /\ handleLike(s)
    \/ (sess[s].pc # "idle" \/ ThreadOps < MaxCounterOps) /\ handleSubmitReply(s)
    \/ handleSubmit_count(s)
    \/ handleSubmit_points(s)
    \/ (sess[s].pc # "idle" \/ ThreadOps < MaxCounterOps) /\ handleDeleteComment(s)

SpecCounters == InitCounters /\ [][NextCounters]_vars

\* --------------------------------------- specification: replies, two posts
TwoPosts == {"p1", "p2"}

\* Two posts of u1, each with its own comment trees: a reply is on the post
\* of its parent, and every counter agrees with the rows.
InitReply ==
  /\ \E parent \in InitForests, home \in [1..MaxInitComments -> TwoPosts] :
       /\ \A c \in DOMAIN parent : parent[c] < c
       /\ \A c \in DOMAIN parent : parent[c] # 0 => home[c] = home[parent[c]]
       /\ \A c \in (1..MaxInitComments) \ DOMAIN parent : home[c] = "p1"
       /\ comments = [c \in DOMAIN parent |->
                        [post_id |-> home[c], user_id |-> InitAuthor(c), parent_id |-> parent[c],
                         replies_count |-> Cardinality({k \in DOMAIN parent : parent[k] = c})]]
       /\ nextCommentId = Len(parent) + 1
  /\ posts = [p \in TwoPosts |-> [user_id |-> "u1", likes_count |-> 0,
                                   comments_count |-> Cardinality(CommentsOf(p))]]
  /\ users = [u \in Members |->
                [email |-> <<u>>, name |-> "n0", role |-> ThreadRole(u),
                 approval_status |-> "approved",
                 points |-> 3 * Cardinality({c \in DOMAIN comments : comments[c].user_id = u}),
                 level |-> 1]]
  /\ post_likes = {}
  /\ nextLikeId = 1
  /\ sumDeltas = [u \in Members |-> users[u].points]
  /\ lastAction = [u \in Members |-> "none"]
  /\ adjusts = [likes_count |-> 0, comments_count |-> posts["p1"].comments_count,
                replies_count |-> [c \in DOMAIN comments |-> comments[c].replies_count]]
  /\ lastDelete = NoRow
  /\ NoRegistration
  /\ sessUser = DistinctUsers
  /\ sess = [s \in Sessions |-> FreshSess(sessUser[s])]

NextReply ==
  \E s \in ThreadSessions :
    \/ \E p \in TwoPosts : openPost(s, p)
    \/ onBack(s)
    \/ handleSubmitReply(s)
    \/ handleSubmit_count(s)
    \/ handleSubmit_points(s)
    \/ handleDeleteComment(s)

SpecReply == InitReply /\ [][NextReply]_vars

\* ------------------------------------------- specification: registration
Staff(u, role) ==
  [email |-> <<u>>, name |-> "n0", role |-> role, approval_status |-> "approved",
   points |-> 0, level |-> 1]

NoEngagement ==
  /\ posts = [p \in Posts |-> [user_id |-> "a1", likes_count |-> 0, comments_count |-> 0]]
  /\ post_likes = {}
  /\ nextLikeId = 1
  /\ comments = <<>>
  /\ nextCommentId = 1
  /\ sumDeltas = [u \in DOMAIN users |-> 0]
  /\ lastAction = [u \in DOMAIN users |-> "none"]
  /\ adjusts = [likes_count |-> 0, comments_count |-> 0, replies_count |-> <<>>]
  /\ lastDelete = NoRow

InitReg ==
  /\ users = [u \in {"a1", "m1", "u1"} |->
                Staff(u, CASE u = "a1" -> "admin" [] u = "m1" -> "moderator" [] OTHER -> "member")]
  /\ sessUser = [s \in Sessions |-> CASE s = "s1" -> "a1" [] s = "s2" -> "m1" [] OTHER -> "u1"]
  /\ sess = [s \in Sessions |-> [pc |-> "idle", ops |-> 0]]
  /\ NoEngagement
  /\ banned_emails = {}
  /\ authUsers = {}
  /\ notifications = {}
  /\ reg = <<>>
  /\ listOps = 0
  /\ NoModeration

NextReg ==
  \/ \E c \in 1..MaxRegs : registerUser(c)
  \/ \E s \in Sessions, email \in Emails : banEmail(s, email)
  \/ \E s \in Sessions, email \in Emails : handleUnbanEmail(s, email)

SpecReg == InitReg /\ [][NextReg]_vars

\* ---------------------------------------------- specification: approval
Applicants == {"t1", "t2"}

\* Two admins and a moderator have the member approval page open; the
\* applicants registered earlier, some were decided on before.
InitApproval ==
  /\ \E status \in [Applicants -> Statuses] :
       users = [u \in {"a1", "a2", "m1"} \cup Applicants |->
                  IF u \in Applicants
                    THEN [email |-> <<u>>, name |-> "n0", role |-> "member",
                          approval_status |-> status[u], points |-> 0, level |-> 1]
                    ELSE Staff(u, IF u = "m1" THEN "moderator" ELSE "admin")]
  /\ sessUser = [s \in Sessions |-> CASE s = "s1" -> "a1" [] s = "s2" -> "a2" [] OTHER -> "m1"]
  /\ \E filter \in {"pending", "all"} :
       sess = [s \in Sessions |->
                 [pc |-> "idle", ops |-> 0, filter |-> filter,
                  pendingUsers |-> loadUsers(filter), userId |-> "none", decision |-> "none"]]
  /\ NoEngagement
  /\ NoRegistration

NextApproval ==
  \E s \in Sessions :
    \/ \E filter \in {"pending", "all"} : setFilter(s, filter)
    \/ handleApprove(s)
    \/ handleReject(s)
    \/ handleDecision_notify(s)
    \/ handleDecision_reload(s)

SpecApproval == InitApproval /\ [][NextApproval]_vars

\* -------------------------------------------- specification: moderation
Accounts(ids) == {[id |-> u, email |-> <<u>>] : u \in ids}

\* An admin, a moderator and a member are signed in; the member registered
\* earlier and may have been decided on.  The admin pages show fresh lists.
InitModeration ==
  /\ \E status \in Statuses :
       users = [u \in {"a1", "m1", "t1"} |->
                  IF u = "t1"
                    THEN [email |-> <<u>>, name |-> "n0", role |-> "member",
                          approval_status |-> status, points |-> 0, level |-> 1]
                    ELSE Staff(u, IF u = "m1" THEN "moderator" ELSE "admin")]
  /\ sessUser = [s \in Sessions |-> CASE s = "s1" -> "a1" [] s = "s2" -> "m1" [] OTHER -> "t1"]
  /\ sess = [s \in Sessions |->
               [pc |-> "idle", ops |-> 0, currentUser |-> UserRow(sessUser[s]),
                filter |-> "all", pendingUsers |-> loadUsers("all"),
                userId |-> "none", decision |-> "none", bans |-> {}]]
  /\ NoEngagement
  /\ banned_emails = {}
  /\ authUsers = Accounts(DOMAIN users)
  /\ notifications = {}
  /\ reg = <<>>
  /\ listOps = 0
  /\ unbanned = {}
  /\ user_progress = {}
  /\ lessonView = [s \in Sessions |-> ClosedView]
  /\ user_bans = {}
  /\ login = [u \in {"t1"} |->
                [pc |-> "idle", calls |-> 0, signedIn |-> FALSE, banned |-> FALSE,
                 userData |-> NoRow, result |-> "none", isPending |-> FALSE]]

\* The handlers of the application.
NextModeration ==
  \/ \E s \in Sessions :
       \/ AdminDashboard(s) /\ setFilter(s, "all")
       \/ AdminDashboard(s) /\ ModOps < MaxModOps /\ handleApprove(s)
       \/ AdminDashboard(s) /\ ModOps < MaxModOps /\ handleReject(s)
       \/ handleDecision_notify(s)
       \/ handleDecision_reload(s)
       \/ \E userId \in DOMAIN users, newRole \in {"admin", "moderator", "member"} :
            handleChangeRole(s, userId, newRole)
       \/ handleBanUser(s)
       \/ handleUnbanUser(s)
       \/ handleBan_loadBans(s)
       \/ \E name \in Names : handleSave(s, name)
  \/ \E u \in DOMAIN login : (login[u].pc # "idle" \/ ModOps < MaxModOps) /\ loginUser(u)
  \/ (1 \in DOMAIN reg \/ ModOps < MaxModOps) /\ registerUser(1)

SpecModeration == InitModeration /\ [][NextModeration]_vars

\* Requests sent straight to the store by a signed-in client, next to the
\* role buttons of the user management page.
NextRequests ==
  \E s \in Sessions :
    \/ \E id \in DOMAIN users, patch \in Patches : usersUpdateRequest(s, id, patch)
    \/ \E patch \in Patches : selfUpdate(s, patch)
    \/ \E userId \in DOMAIN users, newRole \in {"admin", "moderator", "member"} :
         handleChangeRole(s, userId, newRole)

SpecRequests == InitModeration /\ [][NextRequests]_vars

\* Requests on points and level sent straight to the store.
NextPoints ==
  \E s \in Sessions, id \in DOMAIN users, patch \in PointPatches :
    usersUpdateRequest(s, id, patch)

SpecPoints == InitModeration /\ [][NextPoints]_vars

\* Registration and member approval with a store that may fail the insert
\* of a notification.
NextNotify ==
  \/ \E s \in Sessions :
       \/ AdminDashboard(s) /\ handleApprove(s)
       \/ AdminDashboard(s) /\ handleReject(s)
       \/ \E delivered \in BOOLEAN : handleDecision_notifyStep(s, delivered)
       \/ handleDecision_reload(s)
  \/ \E c \in 1..MaxRegs :
       \/ \E email \in Emails, valid \in BOOLEAN : registerUser_check(c, email, valid)
       \/ registerUser_signUp(c)
       \/ registerUser_profile(c)
       \/ \E delivered \in BOOLEAN : registerUser_notifyStep(c, delivered)

SpecNotify == InitModeration /\ [][NextNotify]_vars

\* ------------------------------------------ specification: post deletion
\* Post p1 with some likes and comments on it; its owner u1 is a member or
\* staff, u2 is a member, u3 a moderator.  Every session shows the feed.
InitPostDelete ==
  /\ \E liked \in SUBSET {"u2"}, n \in 0..MaxInitComments, ownerRole \in {"member", "admin"} :
       /\ users = [u \in Members |->
                     [Member(u, 0) EXCEPT !.role = CASE u = "u1" -> ownerRole
                                                      [] u = "u3" -> "moderator"
                                                      [] OTHER -> "member"]]
       /\ post_likes = {[id |-> i, post_id |-> "p1", user_id |-> u] :
                          <<i, u>> \in {<<1, "u1">>, <<2, "u2">>} \cap ((1..2) \X liked)}
       /\ comments = [c \in 1..n |-> [post_id |-> "p1", user_id |-> InitAuthor(c),
                                       parent_id |-> c - 1, replies_count |-> IF c < n THEN 1 ELSE 0]]
       /\ posts = [q \in Posts |-> [user_id |-> "u1", likes_count |-> Cardinality(liked),
                                     comments_count |-> n]]
       /\ nextCommentId = n + 1
  /\ nextLikeId = 4
  /\ sumDeltas = [u \in Members |-> 0]
  /\ lastAction = [u \in Members |-> "none"]
  /\ adjusts = [likes_count |-> posts["p1"].likes_count,
                comments_count |-> posts["p1"].comments_count,
                replies_count |-> [c \in DOMAIN comments |-> comments[c].replies_count]]
  /\ lastDelete = NoRow
  /\ NoRegistration
  /\ sessUser = DistinctUsers
  /\ sess = [s \in Sessions |-> FreshSess(sessUser[s])]

NextPostDelete ==
  \E s \in Sessions :
    \/ (sess[s].pc # "idle" \/ ThreadOps < MaxPostOps) /\ handleDeletePost(s)
    \/ \E p \in Posts : ThreadOps < MaxPostOps /\ PostModeration_handleDeletePost(s, p)
    \/ (sess[s].pc # "idle" \/ ThreadOps < MaxPostOps) /\ handleLike(s)
    \/ \E p \in Posts : openPost(s, p)
    \/ onBack(s)
    \/ (sess[s].pc # "idle" \/ ThreadOps < MaxPostOps) /\ handleSubmitComment(s)

SpecPostDelete == InitPostDelete /\ [][NextPostDelete]_vars

Quiescent == \A s \in Sessions : sess[s].pc = "idle"

\* ------------------------------------------------------------ claims
Likers == {u \in Members : lastAction[u] = "like"}

\* C1: after every completed like/unlike toggle, whatever the interleaving
\* and also with two sessions of one user, posts.likes_count equals the
\* number of post_likes rows of the post.
C1_LikesCountEqualsRows ==
  Quiescent => \A p \in Posts : posts[p].likes_count = Cardinality(LikesOf(p))

\* C2: with one session per user, once all handleLike calls have completed
\* likes_count equals the number of users whose last action was a like, and
\* exactly those users have a post_likes row (one each).
C2_DistinctUsersConverge ==
  Quiescent =>
    /\ posts["p1"].likes_count = Cardinality(Likers)
    /\ {l.user_id : l \in LikesOf("p1")} = Likers
    /\ Cardinality(LikesOf("p1")) = Cardinality(Likers)

\* C2 witness: three users liked a post nobody liked before, every session
\* has finished its call, and the count arrived at 3 with three fresh rows.
C2_Witness ==
  /\ Quiescent
  /\ \A s \in Sessions : sess[s].ops = 1
  /\ {l.id : l \in post_likes} = {4, 5, 6}
  /\ posts["p1"].likes_count = 3

\* C3: after every completed handleSubmitComment, handleSubmitReply or
\* handleDeleteComment, posts.comments_count equals the number of comments
\* rows of the post, at every depth.
C3_CommentsCountEqualsRows ==
  Quiescent => \A p \in Posts : posts[p].comments_count = Cardinality(CommentsOf(p))

\* C4: a completed deletion of a stored comment with n descendants removed
\* the comment and its n descendants, lowered the post's comments_count by
\* exactly n + 1 and the parent's replies_count by exactly 1 (nothing to
\* lower when the comment has no parent).
C4_DeleteLowersBySubtree ==
  (lastDelete # NoRow /\ lastDelete.existed) =>
    /\ lastDelete.removed
    /\ lastDelete.after = lastDelete.before - (lastDelete.n + 1)
    /\ lastDelete.hadParent => lastDelete.parent \in {1, "gone"}

\* C5: after every completed reply creation and comment deletion, every
\* comment's replies_count equals the number of its direct children.
C5_RepliesCountEqualsChildren ==
  Quiescent =>
    \A c \in DOMAIN comments : comments[c].replies_count = Cardinality(ChildrenOf(c))

\* C8: once the concurrent adjustments of a derived counter have completed,
\* the stored value is the initial value plus the sum of the deltas.
C8_NoAdjustmentLost ==
  Quiescent =>
    /\ posts["p1"].likes_count = adjusts.likes_count
    /\ posts["p1"].comments_count = adjusts.comments_count
    /\ \A c \in DOMAIN comments \cap DOMAIN adjusts.replies_count :
          comments[c].replies_count = adjusts.replies_count[c]

\* C6: after any sequence of point-changing operations of a user, from one or
\* several sessions, users.points equals max(0, sum of the deltas of the
\* operations that took effect).
C6_PointsEqualClampedSum ==
  Quiescent =>
    \A u \in DOMAIN users :
      users[u].points = IF sumDeltas[u] > 0 THEN sumDeltas[u] ELSE 0

\* C7: users.points is never negative; an unlike applied to a total smaller
\* than 2 stores 0.
C7_PointsNeverNegative ==
  \A u \in DOMAIN users : users[u].points >= 0

\* C9: registerUser called (with well-formed fields) with an email that is on
\* the deny-list fails with the deny-list error and creates neither an
\* account nor a users row, whatever other registrations and deny-list
\* edits run concurrently.
C9_ListedEmailRefused ==
  \A c \in DOMAIN reg :
    (reg[c].valid /\ reg[c].listed) =>
      /\ reg[c].pc = "done"
      /\ reg[c].result = "not allowed to register"
      /\ RegIds[c] \notin DOMAIN users
      /\ RegIds[c] \notin {a.id : a \in authUsers}

AllowedTransitions ==
  {<<"pending", "approved">>, <<"pending", "rejected">>, <<"rejected", "approved">>}

\* C10: whatever admins and moderators do with handleApprove and handleReject,
\* also from a stale user list, a user's approval_status changes only along
\* pending->approved, pending->rejected or rejected->approved.
C10_OnlyAllowedTransitions ==
  [][\A u \in DOMAIN users \cap DOMAIN users' :
       users'[u].approval_status # users[u].approval_status =>
         <<users[u].approval_status, users'[u].approval_status>> \in AllowedTransitions]_vars

\* C11: no sequence of registerUser, handleApprove, handleReject,
\* handleChangeRole, handleBanUser, handleUnbanUser, handleSave and loginUser
\* steps changes a user's approval_status from approved to pending.
C11_ApprovedNeverPending ==
  [][\A u \in DOMAIN users \cap DOMAIN users' :
       ~(users[u].approval_status = "approved" /\ users'[u].approval_status = "pending")]_vars

\* C11 witness: t1 was approved by a decision (the approval notification was
\* sent) and had its role changed afterwards; it is still approved.
C11_Witness ==
  /\ [user_id |-> "t1", type |-> "approval"] \in notifications
  /\ users["t1"].role = "moderator"
  /\ users["t1"].approval_status = "approved"

\* C12: a loginUser call of a user who has an active ban (a user_bans row
\* with active = true) when signing in, and still has it, never ends with a
\* full-privilege session (success, not pending).
C12_BannedNeverFullSession ==
  \A u \in DOMAIN login :
    (login[u].banned /\ \E b \in user_bans : b.user_id = u /\ b.active) =>
      ~(login[u].result = "success" /\ login[u].signedIn /\ ~login[u].isPending)

\* C13: a write by a user to the own users row that changes role or
\* approval_status is rejected as a whole, whatever the role of the user: no
\* field of any users row changes.
C13_SelfWriteRejectedWhole ==
  [][\A s \in Sessions, patch \in Patches :
       (/\ selfUpdate(s, patch)
        /\ \/ Patched(users[sessUser[s]], patch).role # users[sessUser[s]].role
           \/ Patched(users[sessUser[s]], patch).approval_status
                 # users[sessUser[s]].approval_status)
       => users' = users]_vars

\* C14: a user's role changes only by a request of an actor whose stored
\* role is admin; a role change requested by a moderator or a member never
\* takes effect.
C14_RoleChangeAdminOnly ==
  [][\A u \in DOMAIN users \cap DOMAIN users' :
       users'[u].role # users[u].role =>
         \E s \in Sessions :
           /\ users[sessUser[s]].role = "admin"
           /\ \/ \E newRole \in {"admin", "moderator", "member"} : handleChangeRole(s, u, newRole)
              \/ \E patch \in Patches : usersUpdateRequest(s, u, patch)]_vars

\* C14 witness: the admin made t1 a moderator, and the moderator and the
\* member each sent a request that left every role as it was.
C14_Witness ==
  /\ sess["s1"].ops = 1 /\ sess["s2"].ops = 1 /\ sess["s3"].ops = 1
  /\ users["t1"].role = "moderator"
  /\ users["m1"].role = "moderator"
  /\ users["a1"].role = "admin"

\* C15: an approval decision along pending->approved, pending->rejected or
\* rejected->approved takes effect when the actor's role is admin or
\* moderator and does not take effect when the actor's role is member.
C15_DecisionByStaffOnly ==
  [][\A s \in Sessions, userId \in DOMAIN users, decision \in {"approved", "rejected"} :
       (/\ handleDecision_update(s, userId, decision)
        /\ <<users[userId].approval_status, decision>> \in AllowedTransitions)
       => (users'[userId].approval_status = decision
             <=> users[sessUser[s]].role \in {"admin", "moderator"})]_vars

\* C16: the deny-list (banned_emails) changes only by an insert or a delete
\* of an actor whose role is admin; an insert or delete attempted by a
\* moderator or a member leaves it as it was.
C16_DenyListAdminOnly ==
  [][banned_emails' # banned_emails =>
       \E s \in Sessions, email \in Emails :
         /\ users[sessUser[s]].role = "admin"
         /\ banEmail(s, email) \/ handleUnbanEmail(s, email)]_vars

\* C16 witness: the admin and the moderator each attempted one edit and one
\* entry is on the list: the admin's insert took effect, the moderator's
\* insert or delete changed nothing.
C16_Witness ==
  /\ sess["s1"].ops = 1
  /\ sess["s2"].ops = 1
  /\ Cardinality(banned_emails) = 1

\* C17: once a post has been deleted, from the feed or from post moderation,
\* no post_likes row and no comments row references it, whatever likes and
\* comments other sessions were adding at the time.
C17_DeletedPostLeavesNoRows ==
  \A p \in Posts \ DOMAIN posts : LikesOf(p) = {} /\ CommentsOf(p) = {}

\* C17 witness: the post is gone after a session of another user tried to
\* add a like or a comment to it.
C17_Witness ==
  /\ "p1" \notin DOMAIN posts
  /\ \E s \in Sessions : sess[s].pc \in {"like_rpc", "comment_count"}
  /\ nextLikeId > 4 \/ nextCommentId > 1

\* C18: a registerUser call (with well-formed fields) made after the email
\* was taken off the deny-list by handleUnbanEmail, and not put back, is not
\* refused by the deny-list check; and the handleUnbanEmail step itself
\* creates or restores no users row, no account and lifts no ban.
C18_UnbanReopensRegistrationOnly ==
  [][/\ \A c \in DOMAIN reg' :
          (reg'[c].valid /\ reg'[c].unbanned) => reg'[c].result # "not allowed to register"
     /\ \A s \in Sessions, email \in Emails :
          handleUnbanEmail(s, email) => UNCHANGED <<users, authUsers, user_bans>>]_vars

\* C18 witness: an email was put on the deny-list and taken off again, and
\* the registration with it that followed created the account.
C18_Witness ==
  \E c \in DOMAIN reg :
    /\ reg[c].unbanned
    /\ reg[c].email \notin banned_emails
    /\ reg[c].result = "success"
    /\ RegIds[c] \in DOMAIN users

\* C19: when a step of a like/unlike, add-comment, add-reply or
\* delete-comment call is refused by the store with an error, then once the
\* call has returned none of its writes is in the store: no row, no counter
\* and no points were changed by it.
C19_FailedCallLeavesNothing ==
  \A s \in Sessions : (sess[s].pc = "idle" /\ sess[s].failed) => ~sess[s].changed

\* C20: when two sessions of one user have each completed one like request
\* for the same post (the second not having seen the first) and nobody else
\* acted, there is exactly one post_likes row for the pair, likes_count went
\* up by 1 in total (it equals the number of rows) and the user holds the 2
\* points of one like.
C20_SecondLikeHasNoEffect ==
  \A s, r \in Sessions :
    (/\ Quiescent
     /\ s # r
     /\ sessUser[s] = sessUser[r]
     /\ \A q \in Sessions : sess[q].ops = (IF q \in {s, r} THEN 1 ELSE 0)
     /\ sess[s].request = "like"
     /\ sess[r].request = "like")
    => /\ Cardinality({l \in LikesOf("p1") : l.user_id = sessUser[s]}) = 1
       /\ posts["p1"].likes_count = Cardinality(LikesOf("p1"))
       /\ users[sessUser[s]].points = 2

\* C21: a completed handleDeleteComment (its actor is the comment's author,
\* a moderator or an admin, the only users the view offers the deletion to)
\* on a stored comment removed it, and a call that did not remove the
\* comment changed neither comments_count nor the parent's replies_count.
C21_DeleteByAuthorOrStaff ==
  lastDelete # NoRow =>
    /\ lastDelete.existed => lastDelete.removed
    /\ ~lastDelete.removed =>
         /\ lastDelete.after = lastDelete.before
         /\ lastDelete.parent \in {0, "none", "gone"}

C23_SecondDecisionIsConflict ==
  [][\A s \in Sessions, userId \in DOMAIN users, decision \in {"approved", "rejected"} :
       (/\ handleDecision_update(s, userId, decision)
        /\ sess[s].pendingUsers[userId].approval_status = "pending"
        /\ users[userId].approval_status # "pending")
       => /\ users' = users
          /\ sess'[s].pc = "idle"]_vars

\* C24: a notification step of registerUser, handleApprove or handleReject
\* that inserts no notification leaves the users table as the primary change
\* left it (the new row, the new approval_status) and goes on as after an
\* insert: registerUser returns success, the decision handler reloads the
\* list without an error.
C24_NotificationFailureIsSwallowed ==
  [][/\ \A c \in 1..MaxRegs :
          (registerUser_notifyStep(c, FALSE) /\ notifications' = notifications)
          => /\ users' = users
             /\ RegIds[c] \in DOMAIN users'
             /\ reg'[c].result = "success"
     /\ \A s \in Sessions :
          (handleDecision_notifyStep(s, FALSE) /\ notifications' = notifications)
          => /\ users' = users
             /\ sess'[s].pc = "reload"]_vars

\* C24 witness: a registration returned success and the new user was then
\* approved, both without a notification being stored; the users row and
\* the approval are in the store.
C24_Witness ==
  /\ notifications = {}
  /\ \A s \in Sessions : sess[s].pc = "idle"
  /\ \E c \in DOMAIN reg :
       /\ reg[c].result = "success"
       /\ RegIds[c] \in DOMAIN users
       /\ users[RegIds[c]].approval_status = "approved"

\* C25: in every reachable state the levels are a non-decreasing function of
\* the points with level 1 at 0 points: users with equal points have equal
\* level, and a user with more points never has a lower level.
C25_LevelIsStepFunctionOfPoints ==
  \A u, v \in DOMAIN users :
    /\ users[u].points = 0 => users[u].level = 1
    /\ users[u].points = users[v].points => users[u].level = users[v].level
    /\ users[u].points > users[v].points => users[u].level >= users[v].level

\* C26: likes_count, comments_count and replies_count are never negative:
\* an unlike, a comment deletion or a reply deletion applied to a counter
\* that is already 0 leaves it at 0.
C26_CountersNeverNegative ==
  /\ \A p \in DOMAIN posts : posts[p].likes_count >= 0 /\ posts[p].comments_count >= 0
  /\ \A c \in DOMAIN comments : comments[c].replies_count >= 0

\* C26 witness: two sessions of u1 both unliked the one like of u1; the
\* second decrement met a likes_count of 0 and left it at 0.
C26_Witness ==
  /\ Quiescent
  /\ adjusts.likes_count = -1
  /\ posts["p1"].likes_count = 0

C28_PointsAndLevelAdminOnly ==
  [][\A s \in Sessions, id \in DOMAIN users, patch \in PointPatches :
       (usersUpdateRequest(s, id, patch) /\ users[sessUser[s]].role # "admin")
       => \A u \in DOMAIN users :
            /\ users'[u].role = users[u].role
            /\ users'[u].approval_status = users[u].approval_status
            /\ users'[u].points = users[u].points
            /\ users'[u].level = users[u].level]_vars

ProgressRows(u, lesson) == {r \in user_progress : r.user_id = u /\ r.lesson_id = lesson}

C30_DenyListCheckIgnoresCase ==
  [][\A c \in DOMAIN reg' \ DOMAIN reg :
       (reg'[c].valid /\ SameAddress(reg'[c].email) \cap banned_emails # {}) =>
         reg'[c].result = "not allowed to register"]_vars

====
